---- MODULE Spec2Model ----
(***************************************************************************)
(* Model of ariarpcc (src/ariarpcc/__main__.py): the JSON-RPC client       *)
(* Aria2RPC._call_rpc, the batch parser AddDownload.start.read_inp, the    *)
(* option normalization of AddDownload.start and the subcommands' start()  *)
(* methods.  Python strings are TLA+ strings, Python dicts are functions   *)
(* from keys to values, and mutable Python objects (the option dicts of    *)
(* the parser, the caller's params list) live in explicit heaps so that    *)
(* aliasing and in-place mutation are visible.                             *)
(***************************************************************************)
EXTENDS Integers, Sequences, FiniteSets, TLC

VARIABLES
    read,       \* read_inp: the lines of inp consumed so far by `for v in inp`
    umap,       \* read_inp: umap, an insertion-ordered dict: sequence of [k, r]
    ucur,       \* read_inp: ucur, a reference into heap, or NoneRef
    heap,       \* read_inp: the dict objects; heap[udef] is the udef dict
    ret,        \* read_inp: the value of `return umap` (empty until then)
    bpc,        \* read_inp: "reading" inside the for loop, "returned" after it
    rpc_secret, \* Aria2RPC.rpc_secret
    clist,      \* the items of a list object a caller of _call_rpc holds
    rpc,        \* _call_rpc: the number of calls made and the last call's
                \* argument, transmitted payload, response and outcome
    argv,       \* the subcommand chosen and its parsed arguments and flags
    options,    \* AddDownload.start: the normalized options dict
    calls,      \* the _call_rpc calls the subcommand made, in order
    stdout,     \* the lines the subcommand printed
    returncode, \* the exit status of the process
    cpc         \* "init" before the subcommand's start(), "exited" after

batchVars == <<read, umap, ucur, heap, ret, bpc>>
rpcVars == <<clist, rpc>>
cliVars == <<argv, options, calls, stdout, returncode, cpc>>
vars == <<read, umap, ucur, heap, ret, bpc, rpc_secret, clist, rpc,
          argv, options, calls, stdout, returncode, cpc>>

-----------------------------------------------------------------------------
(* Bounds *)

MaxLines == 4
MaxCalls == 3
MaxTokens == 2

-----------------------------------------------------------------------------
(* Python str methods *)

Ch(s, i) == SubSeq(s, i, i)

IsSpace(c) == c \in {" ", "\t", "\n", "\r"}

RECURSIVE rstrip(_)
rstrip(s) ==
    IF Len(s) = 0 THEN s
    ELSE IF IsSpace(Ch(s, Len(s))) THEN rstrip(SubSeq(s, 1, Len(s) - 1))
    ELSE s

RECURSIVE lstrip(_)
lstrip(s) ==
    IF Len(s) = 0 THEN s
    ELSE IF IsSpace(Ch(s, 1)) THEN lstrip(SubSeq(s, 2, Len(s)))
    ELSE s

startswith(s, p) == Len(s) >= Len(p) /\ SubSeq(s, 1, Len(p)) = p

endswith(s, p) == Len(s) >= Len(p) /\ SubSeq(s, Len(s) - Len(p) + 1, Len(s)) = p

\* str.find for a one-character separator, 1-based; 0 when absent
find(s, sep) ==
    IF \E i \in 1..Len(s) : Ch(s, i) = sep
    THEN CHOOSE i \in 1..Len(s) :
            /\ Ch(s, i) = sep
            /\ \A j \in 1..(i - 1) : Ch(s, j) # sep
    ELSE 0

\* str.partition(sep): (head, sep, tail), or (s, "", "") when sep is absent
partition(s, sep) ==
    LET i == find(s, sep) IN
    IF i = 0 THEN <<s, "", "">>
    ELSE <<SubSeq(s, 1, i - 1), sep, SubSeq(s, i + 1, Len(s))>>

-----------------------------------------------------------------------------
(* Python dict with str keys *)

EmptyDict == [k \in {} |-> ""]

setitem(d, k, v) == [x \in (DOMAIN d) \cup {k} |-> IF x = k THEN v ELSE d[x]]

get(d, k, default) == IF k \in DOMAIN d THEN d[k] ELSE default

-----------------------------------------------------------------------------
(* Python and JSON values, tagged by type *)

PyNone == [t |-> "None"]
PyStr(s) == [t |-> "str", s |-> s]
PyInt(i) == [t |-> "int", i |-> i]
PyList(l) == [t |-> "list", l |-> l]
PyDict(d) == [t |-> "dict", d |-> d]

\* bool(v)
truthy(v) ==
    CASE v.t = "None" -> FALSE
      [] v.t = "str" -> v.s # ""
      [] v.t = "int" -> v.i # 0
      [] v.t = "list" -> v.l # <<>>
      [] v.t = "dict" -> DOMAIN v.d # {}

\* str(v), as an f-string formats a None, a str or a small int
str(v) ==
    CASE v.t = "None" -> "None"
      [] v.t = "str" -> v.s
      [] v.t = "int" -> IF v.i = 0 THEN "0" ELSE IF v.i = 1 THEN "1" ELSE "100"

-----------------------------------------------------------------------------
(* read_inp: the batch parser *)

\* `ucur = None`: no reference
NoneRef == -1

\* the reference of the udef dict, created at line 72
udef == 0

\* the lines the input stream can deliver (the last line of a file may lack
\* its newline)
Lines == {
    "http://a\n", "http://a  ", "http://b\n",
    " x=1\n", "\tx=2\n", "  proxy=1.2.3.4\n",
    "\n", " \t\n", "#c=1\n",
    " x\n", " =1\n", " x= \n" }

\* `v in umap`
InUmap(m, v) == \E i \in 1..Len(m) : m[i].k = v

\* line 76: `not v or v.startswith("#")`
ignored(v) == v = "" \/ startswith(v, "#")

\* line 78: `v.startswith(" ") or v.startswith("\t")`
isOption(v) == startswith(v, " ") \/ startswith(v, "\t")

\* line 80: `if value and name`
recordable_or(name, value) == value # "" \/ name # ""
recordable(name, value) == value # "" /\ name # ""

\* lines 81-84: the dict an option line is recorded into
target_udef(cur) == udef
target(cur) == IF cur = NoneRef THEN udef ELSE cur

\* line 86: the object `udef.copy()` yields, a new dict at the reference fresh
copy_alias(src, fresh) == src
copy(src, fresh) == fresh

\* line 86: the items of the dict `udef.copy()` yields
copyItems_empty(d) == EmptyDict
copyItems(d) == d

\* line 85: `elif v not in umap`
isNew_always(m, v) == TRUE
isNew(m, v) == ~InUmap(m, v)

\* lines 70-72: the parser's variables ahead of the first line
BatchStart ==
    [read |-> <<>>, umap |-> <<>>, ucur |-> NoneRef,
     heap |-> [r \in {udef} |-> EmptyDict], ret |-> <<>>, bpc |-> "reading"]

\* lines 74-86: one iteration of `for v in inp`
ReadLine(line) ==
    /\ bpc = "reading"
    /\ Len(read) < MaxLines
    /\ read' = Append(read, line)
    /\ UNCHANGED <<ret, bpc>>
    /\ UNCHANGED <<rpc_secret, rpcVars, cliVars>>
    /\ LET v == rstrip(line) IN
       IF ignored(v) THEN UNCHANGED <<umap, ucur, heap>>
       ELSE IF isOption(v) THEN
            LET p == partition(lstrip(v), "=")
                name == p[1]
                value == p[3]
            IN  /\ UNCHANGED <<umap, ucur>>
                /\ IF recordable(name, value)
                   THEN heap' = [heap EXCEPT ![target(ucur)] = setitem(@, name, value)]
                   ELSE UNCHANGED heap
       ELSE IF isNew(umap, v) THEN
            LET fresh == Cardinality(DOMAIN heap)
                r == copy(udef, fresh)
            IN  /\ heap' = [o \in (DOMAIN heap) \cup {r} |->
                                IF o = r THEN copyItems(heap[udef]) ELSE heap[o]]
                /\ umap' = Append(umap, [k |-> v, r |-> r])
                /\ ucur' = r
       ELSE UNCHANGED <<umap, ucur, heap>>

\* line 87: end of input, `return umap`
Return ==
    /\ bpc = "reading"
    /\ bpc' = "returned"
    /\ ret' = [i \in 1..Len(umap) |-> [k |-> umap[i].k, v |-> heap[umap[i].r]]]
    /\ UNCHANGED <<read, umap, ucur, heap>>
    /\ UNCHANGED <<rpc_secret, rpcVars, cliVars>>

BatchNext ==
    \/ \E line \in Lines : ReadLine(line)
    \/ Return

-----------------------------------------------------------------------------
(* Aria2RPC._call_rpc *)

\* line 29: `params.insert(0, x)`
insert0_append(l, x) == Append(l, x)
insert0(l, x) == <<x>> \o l

\* line 29: f"token:{self.rpc_secret}"
token(secret) == PyStr("token:" \o str(secret))

\* lines 25-29: the items of params when the payload is built
withToken(secret, given) ==
    IF truthy(secret) THEN insert0(given, token(secret)) ELSE given

\* lines 31-36
payload(method, params) ==
    [jsonrpc |-> "2.0", id |-> "1", method |-> "aria2." \o method, params |-> params]

NoPayload == [jsonrpc |-> "", id |-> "", method |-> "", params |-> <<>>]

\* what requests.post gives: an exception, or a response with a status code
\* and a body that response.json() rejects or parses
NoResponse == [transport |-> "", exc |-> "", status |-> 0, body |-> PyNone]

TransportFailure ==
    [transport |-> "fail", exc |-> "Connection refused", status |-> 0, body |-> PyNone]

ErrorValues == {
    PyNone,
    PyDict(EmptyDict),
    PyDict([code |-> PyInt(1), message |-> PyStr("m")]),
    PyDict([code |-> PyInt(0), message |-> PyStr("")]),
    PyDict([code |-> PyInt(1)]),
    PyStr("boom") }

\* the value of "result" the daemon sends for a method
ResultFor(method) ==
    IF method \in {"tellActive", "tellWaiting", "tellStopped"} THEN PyList(<<>>)
    ELSE IF method \in {"addUri", "remove", "pause", "unpause"} THEN PyStr("2089b05ecca3d829")
    ELSE PyStr("OK")

Bodies(method) ==
    {[t |-> "invalid"], PyList(<<>>)}
    \cup {PyDict([k \in {"error"} |-> e]) : e \in ErrorValues}
    \cup {PyDict([k \in {"error", "result"} |->
                    IF k = "error" THEN e ELSE ResultFor(method)]) : e \in ErrorValues}
    \cup {PyDict([k \in {"result"} |-> ResultFor(method)]), PyDict(EmptyDict)}

Statuses == {200, 404, 500}

Responses(method) ==
    {TransportFailure}
    \cup {[transport |-> "ok", exc |-> "", status |-> st, body |-> b] :
            st \in Statuses, b \in Bodies(method)}

NoOutcome == [kind |-> "", msg |-> "", json |-> EmptyDict]
SystemExit(msg) == [kind |-> "SystemExit", msg |-> msg, json |-> EmptyDict]
Raise(exc) == [kind |-> exc, msg |-> "", json |-> EmptyDict]
Returned(json) == [kind |-> "return", msg |-> "", json |-> json]

\* line 50: response.raise_for_status()
raise_for_status(status) == 400 <= status /\ status < 600

\* line 49: the SystemExit of an error the daemon reports
rpcError(error) ==
    IF error.t # "dict" THEN Raise("AttributeError")
    ELSE SystemExit("RPC error " \o str(get(error.d, "code", PyNone))
                    \o ": " \o str(get(error.d, "message", PyNone)))

\* the else branch with the status checked ahead of the error field
checkError_statusFirst(json, status) ==
    LET error == get(json, "error", PyNone) IN
    IF raise_for_status(status) THEN Raise("HTTPError")
    ELSE IF truthy(error) THEN rpcError(error)
    ELSE Returned(json)

\* lines 47-51: the else branch, json being a dict
checkError(json, status) ==
    LET error == get(json, "error", PyNone) IN
    IF truthy(error) THEN rpcError(error)
    ELSE IF raise_for_status(status) THEN Raise("HTTPError")
    ELSE Returned(json)

\* lines 37-51: how the call ends on a response
handle(resp) ==
    IF resp.transport = "fail" THEN SystemExit(resp.exc)
    ELSE IF resp.body.t = "invalid" THEN Raise("JSONDecodeError")
    ELSE IF resp.body.t # "dict" THEN Raise("AttributeError")
    ELSE checkError(resp.body.d, resp.status)

CallerLists == {
    <<>>,
    <<PyStr("2089b05ecca3d829")>>,
    <<PyInt(0), PyInt(100)>> }

Secrets == {PyNone, PyStr(""), PyStr("s")}

\* no call made yet
NoCall == [n |-> 0, arg |-> "", sent |-> NoPayload, resp |-> NoResponse,
           out |-> NoOutcome]

\* lines 23-51: one call; arg is "None" when the caller omits params and
\* "list" when the caller passes the list object it holds
CallRpc(method, arg, resp) ==
    /\ rpc.n < MaxCalls
    /\ LET given == IF arg = "None" THEN <<>> ELSE clist
           params == withToken(rpc_secret, given)
       IN  /\ clist' = IF arg = "None" THEN clist ELSE params
           /\ rpc' = [n |-> rpc.n + 1, arg |-> arg,
                      sent |-> payload(method, params),
                      resp |-> resp, out |-> handle(resp)]
    /\ UNCHANGED rpc_secret
    /\ UNCHANGED <<batchVars, cliVars>>

RpcNext ==
    \E method \in {"remove", "tellWaiting"}, arg \in {"None", "list"} :
        \E resp \in Responses(method) : CallRpc(method, arg, resp)

-----------------------------------------------------------------------------
(* The subcommands *)

URIs == {"foo.torrent", "a.metalink", "http://a/f.iso"}

OptionTokens == {"follow-torrent=mem2", "follow-torrent", "follow-torrent=",
                 "seed", "max-tries=5"}

TokenLists == UNION {[1..n -> OptionTokens] : n \in 0..MaxTokens}

NoArgs == [cmd |-> "", uri |-> "", s |-> <<>>, output |-> PyNone, dir |-> PyNone,
           gid |-> "", all |-> FALSE]

Argvs ==
    {[NoArgs EXCEPT !.cmd = "add", !.uri = u, !.s = ts, !.output = o, !.dir = d] :
        u \in URIs, ts \in TokenLists,
        o \in {PyNone, PyStr("f.bin")}, d \in {PyNone, PyStr("/tmp")}}
    \cup {[NoArgs EXCEPT !.cmd = c] : c \in {"list", "shutdown"}}
    \cup {[NoArgs EXCEPT !.cmd = "remove", !.gid = "2089b05ecca3d829"]}
    \cup {[NoArgs EXCEPT !.cmd = c, !.gid = "2089b05ecca3d829", !.all = a] :
            c \in {"pause", "resume"}, a \in BOOLEAN}

\* line 89: the dict of the -s tokens, a later token replacing an earlier one
RECURSIVE dictOfTokens(_)
dictOfTokens(ts) ==
    IF ts = <<>> THEN EmptyDict
    ELSE LET y == partition(ts[Len(ts)], "=") IN
         setitem(dictOfTokens(SubSeq(ts, 1, Len(ts) - 1)), y[1],
                 IF y[2] # "" THEN y[3] ELSE "true")

\* line 94: `not options.get("follow-torrent")`
followTorrentUnset(o) == get(o, "follow-torrent", "") = ""

\* lines 89-96
normalize(uri, ts, output, dir) ==
    LET o1 == dictOfTokens(ts)
        o2 == IF truthy(output) THEN setitem(o1, "out", output.s) ELSE o1
        o3 == IF truthy(dir) THEN setitem(o2, "dir", dir.s) ELSE o2
    IN  IF followTorrentUnset(o3)
           /\ (endswith(uri, ".torrent") \/ endswith(uri, ".metalink"))
        THEN setitem(o3, "follow-torrent", "mem")
        ELSE o3

\* one _call_rpc call of a subcommand, with the list it passes
doCall(method, given, resp) ==
    [sent |-> payload(method, withToken(rpc_secret, given)),
     resp |-> resp, out |-> handle(resp)]

\* the exception that leaves `self._call_rpc(...)` or the `[...]["result"]`
\* that follows it; "" when there is none
escaping(c, subscripted) ==
    IF c.out.kind # "return" THEN c.out.kind
    ELSE IF subscripted /\ "result" \notin DOMAIN c.out.json THEN "KeyError"
    ELSE ""

\* the exit status of the interpreter: 1 for SystemExit(<str>) and for an
\* uncaught exception, 0 when start() returns
ExitStatus(exc) == IF exc = "" THEN 0 ELSE 1

\* the process ahead of start()
NotStarted ==
    [options |-> EmptyDict, calls |-> <<>>, stdout |-> <<>>, returncode |-> -1,
     cpc |-> "init"]

\* a subcommand that makes one call and prints one line
OneCall(method, given, subscripted, resp, line) ==
    LET c == doCall(method, given, resp)
        exc == escaping(c, subscripted)
    IN  /\ calls' = <<c>>
        /\ stdout' = IF exc = "" THEN <<line \o (IF subscripted
                                                 THEN str(c.out.json["result"])
                                                 ELSE "")>>
                     ELSE <<>>
        /\ returncode' = ExitStatus(exc)
        /\ cpc' = "exited"
        /\ UNCHANGED <<argv, rpc_secret, batchVars, rpcVars>>

\* lines 62-98: AddDownload.start
Add ==
    /\ cpc = "init" /\ argv.cmd = "add"
    /\ options' = normalize(argv.uri, argv.s, argv.output, argv.dir)
    /\ \E resp \in Responses("addUri") :
          OneCall("addUri", <<PyList(<<PyStr(argv.uri)>>), PyDict(options')>>,
                  TRUE, resp, "Added download with GID: ")

\* lines 106-160: ListDownloads.start, the three queues being empty
List ==
    /\ cpc = "init" /\ argv.cmd = "list"
    /\ \E r1 \in Responses("tellActive"), r2 \in Responses("tellWaiting"),
          r3 \in Responses("tellStopped") :
          LET c1 == doCall("tellActive", <<>>, r1)
              c2 == doCall("tellWaiting", <<PyInt(0), PyInt(100)>>, r2)
              c3 == doCall("tellStopped", <<PyInt(0), PyInt(100)>>, r3)
              e1 == escaping(c1, TRUE)
              e2 == escaping(c2, TRUE)
              e3 == escaping(c3, TRUE)
          IN  /\ calls' = IF e1 # "" THEN <<c1>>
                          ELSE IF e2 # "" THEN <<c1, c2>>
                          ELSE <<c1, c2, c3>>
              /\ returncode' = ExitStatus(IF e1 # "" THEN e1
                                      ELSE IF e2 # "" THEN e2 ELSE e3)
    /\ stdout' = <<>>
    /\ cpc' = "exited"
    /\ UNCHANGED <<argv, options, rpc_secret, batchVars, rpcVars>>

\* lines 168-170: RemoveDownload.start
Remove ==
    /\ cpc = "init" /\ argv.cmd = "remove"
    /\ UNCHANGED options
    /\ \E resp \in Responses("remove") :
          OneCall("remove", <<PyStr(argv.gid)>>, TRUE, resp, "Removed download: ")

\* lines 179-185: PauseDownload.start
Pause ==
    /\ cpc = "init" /\ argv.cmd = "pause"
    /\ UNCHANGED options
    /\ IF argv.all
       THEN \E resp \in Responses("pauseAll") :
               OneCall("pauseAll", <<>>, FALSE, resp, "Paused all downloads.")
       ELSE \E resp \in Responses("pause") :
               OneCall("pause", <<PyStr(argv.gid)>>, TRUE, resp, "Paused download: ")

\* lines 194-200: ResumeDownload.start
Resume ==
    /\ cpc = "init" /\ argv.cmd = "resume"
    /\ UNCHANGED options
    /\ IF argv.all
       THEN \E resp \in Responses("unpauseAll") :
               OneCall("unpauseAll", <<>>, FALSE, resp, "Resumed all downloads.")
       ELSE \E resp \in Responses("unpause") :
               OneCall("unpause", <<PyStr(argv.gid)>>, TRUE, resp, "Resumed download: ")

\* lines 229-235: what the try statement of Shutdown.start lets escape.
\* _call_rpc turns a transport failure into SystemExit, which `except
\* Exception` does not catch; every other exception is caught and printed
caught(exc) == exc \notin {"", "SystemExit"}

\* lines 218-235: Shutdown.start
Shutdown ==
    /\ cpc = "init" /\ argv.cmd = "shutdown"
    /\ \E resp \in Responses("shutdown") :
          LET c == doCall("shutdown", <<>>, resp)
              exc == escaping(c, FALSE)
          IN  /\ calls' = <<c>>
              /\ stdout' = IF exc = "" THEN <<"Shutdown command sent to aria2c.">>
                           ELSE IF caught(exc)
                           THEN <<"Error shutting down aria2c: " \o exc>>
                           ELSE <<>>
              /\ returncode' = ExitStatus(IF caught(exc) THEN "" ELSE exc)
    /\ cpc' = "exited"
    /\ UNCHANGED <<argv, options, rpc_secret, batchVars, rpcVars>>

CliNext == Add \/ List \/ Remove \/ Pause \/ Resume \/ Shutdown

-----------------------------------------------------------------------------
(* Specifications *)

\* read_inp on an input stream, nothing else running
BatchInit ==
    /\ read = BatchStart.read /\ umap = BatchStart.umap /\ ucur = BatchStart.ucur
    /\ heap = BatchStart.heap /\ ret = BatchStart.ret /\ bpc = BatchStart.bpc
    /\ rpc_secret = PyNone /\ clist = <<>> /\ rpc = NoCall
    /\ argv = NoArgs /\ options = NotStarted.options /\ calls = NotStarted.calls
    /\ stdout = NotStarted.stdout /\ returncode = NotStarted.returncode
    /\ cpc = NotStarted.cpc

SpecBatch == BatchInit /\ [][BatchNext]_vars

\* a caller of _call_rpc holding a list, with any --rpc-secret
RpcInit ==
    /\ rpc_secret \in Secrets /\ clist \in CallerLists /\ rpc = NoCall
    /\ read = BatchStart.read /\ umap = BatchStart.umap /\ ucur = BatchStart.ucur
    /\ heap = BatchStart.heap /\ ret = BatchStart.ret /\ bpc = BatchStart.bpc
    /\ argv = NoArgs /\ options = NotStarted.options /\ calls = NotStarted.calls
    /\ stdout = NotStarted.stdout /\ returncode = NotStarted.returncode
    /\ cpc = NotStarted.cpc

SpecRpc == RpcInit /\ [][RpcNext]_vars

\* the process after argument parsing, ahead of the subcommand's start()
CliInit ==
    /\ argv \in Argvs /\ rpc_secret \in {PyNone, PyStr("s")}
    /\ options = NotStarted.options /\ calls = NotStarted.calls
    /\ stdout = NotStarted.stdout /\ returncode = NotStarted.returncode
    /\ cpc = NotStarted.cpc
    /\ clist = <<>> /\ rpc = NoCall
    /\ read = BatchStart.read /\ umap = BatchStart.umap /\ ucur = BatchStart.ucur
    /\ heap = BatchStart.heap /\ ret = BatchStart.ret /\ bpc = BatchStart.bpc

SpecCli == CliInit /\ [][CliNext]_vars

-----------------------------------------------------------------------------
(* The batch format as the specification describes it, line by line *)

IdentLines == {"http://a\n", "http://a  ", "http://b\n"}

Ident(line) == IF line \in {"http://a\n", "http://a  "} THEN "http://a" ELSE "http://b"

WellFormedLines == {" x=1\n", "\tx=2\n", "  proxy=1.2.3.4\n"}

OptName(line) == IF line = "  proxy=1.2.3.4\n" THEN "proxy" ELSE "x"

OptValue(line) ==
    IF line = " x=1\n" THEN "1" ELSE IF line = "\tx=2\n" THEN "2" ELSE "1.2.3.4"

\* blank, comment, and option lines without "=", name or value
IgnorableLines == {"\n", " \t\n", "#c=1\n", " x\n", " =1\n", " x= \n"}

Opts(i) == heap[umap[i].r]

Keys(m) == [i \in 1..Len(m) |-> m[i].k]

Range(f) == {f[i] : i \in DOMAIN f}

\* the identifiers of the identifier lines of rd, each once, by first occurrence
RECURSIVE FirstOccurrences(_)
FirstOccurrences(rd) ==
    IF rd = <<>> THEN <<>>
    ELSE LET p == FirstOccurrences(SubSeq(rd, 1, Len(rd) - 1))
             l == rd[Len(rd)]
         IN  IF l \in IdentLines /\ Ident(l) \notin Range(p)
             THEN Append(p, Ident(l)) ELSE p

\* line j of rd declares an identifier not declared by an earlier line
NewIdentAt(rd, j) ==
    /\ rd[j] \in IdentLines
    /\ \A i \in 1..(j - 1) : rd[i] \in IdentLines => Ident(rd[i]) # Ident(rd[j])

\* line j of rd is a well-formed option line ahead of every identifier line
IsDefaultLine(rd, j) ==
    /\ rd[j] \in WellFormedLines
    /\ \A i \in 1..(j - 1) : rd[i] \notin IdentLines

\* line j of rd lies in the block the declaration of identifier k opened
InBlock(rd, k, j) ==
    \E f \in 1..(j - 1) :
        /\ NewIdentAt(rd, f) /\ Ident(rd[f]) = k
        /\ \A i \in (f + 1)..j : ~NewIdentAt(rd, i)

\* the step consumed the line l
Consumed(l) == read' = Append(read, l)

-----------------------------------------------------------------------------
(* Claims about _call_rpc, checked under SpecRpc *)

\* a shared secret is configured: rpc_secret is a non-empty string
Configured == rpc_secret.t = "str" /\ rpc_secret.s # ""

\* the step is a call of _call_rpc
Called == rpc'.n # rpc.n

\* the items the caller supplied to the call the step made
Supplied == IF rpc'.arg = "None" THEN <<>> ELSE clist

\* what C1 says of one step
C1_Step ==
    Called =>
        rpc'.sent.params =
            IF Configured THEN <<PyStr("token:" \o rpc_secret.s)>> \o Supplied
            ELSE Supplied

\* C1: with a secret configured the transmitted params are "token:<secret>"
\* followed by the caller-supplied parameters in their order; without one
\* they are the caller-supplied parameters, or empty when none were given.
C1_TokenFirst == [][C1_Step]_vars

\* a call with a secret and two caller-supplied parameters
C1_Witness ==
    /\ rpc.n > 0 /\ Configured /\ rpc.arg = "list"
    /\ rpc.sent.params = <<PyStr("token:s"), PyInt(0), PyInt(100)>>

ErrorOf(resp) == get(resp.body.d, "error", PyNone)

\* the body parsed and has an error field with a code and a message
HasCodeAndMessage(resp) ==
    /\ resp.transport = "ok"
    /\ resp.body.t = "dict"
    /\ ErrorOf(resp).t = "dict"
    /\ {"code", "message"} \subseteq DOMAIN ErrorOf(resp).d

ExpectedReport(error) ==
    IF error = PyDict([code |-> PyInt(1), message |-> PyStr("m")])
    THEN "RPC error 1: m" ELSE "RPC error 0: "

\* C2: a parsed response with an error field holding a code and a message
\* ends the call with "RPC error <code>: <message>" whatever the HTTP status,
\* and the status check is reached only when no error is reported.
C2_ErrorBeforeStatus ==
    rpc.n > 0 =>
        /\ HasCodeAndMessage(rpc.resp) =>
              rpc.out = SystemExit(ExpectedReport(ErrorOf(rpc.resp)))
        /\ rpc.out.kind \in {"HTTPError", "return"} =>
              /\ rpc.resp.transport = "ok" /\ rpc.resp.body.t = "dict"
              /\ ErrorOf(rpc.resp) \in {PyNone, PyDict(EmptyDict)}

\* an RPC error that arrives with HTTP status 500
C2_Witness ==
    /\ rpc.n > 0
    /\ rpc.resp.status = 500
    /\ HasCodeAndMessage(rpc.resp)
    /\ rpc.out.kind = "SystemExit" /\ rpc.out.msg = "RPC error 1: m"

TokenCount(params) ==
    Cardinality({i \in 1..Len(params) : params[i] = PyStr("token:s")})

\* what C3 says of one step
C3_Step ==
    Called =>
        /\ clist' = clist
        /\ Configured => TokenCount(rpc'.sent.params) = 1

\* C3: a call leaves the items of the caller's list as they were, and with a
\* secret configured every request carries exactly one token element.
C3_CallerListUntouched == [][C3_Step]_vars

-----------------------------------------------------------------------------
(* Claims about read_inp, checked under SpecBatch *)

\* what C4 says of one step
C4_Step ==
    /\ \A i \in 1..Len(umap) :
          /\ umap[i].r # udef
          /\ \A j \in 1..Len(umap) : i # j => umap[i].r # umap[j].r
    /\ \A i \in 1..Len(umap) :
          heap'[umap[i].r] # heap[umap[i].r] =>
             /\ heap'[udef] = heap[udef]
             /\ \A j \in 1..Len(umap) : j # i => heap'[umap[j].r] = heap[umap[j].r]
    /\ heap'[udef] # heap[udef] =>
          \A i \in 1..Len(umap) : heap'[umap[i].r] = heap[umap[i].r]

\* C4: every identifier inserted into the result gets its own copy of
\* pending_defaults: no two result entries, and no entry and pending_defaults,
\* are one dict object, and a step that changes one identifier's option set
\* changes neither pending_defaults nor any other identifier's option set.
C4_CopySemantics == [][C4_Step]_vars

\* two entries and the defaults, all three with different contents
C4_Witness ==
    /\ Len(umap) = 2
    /\ heap[udef] # EmptyDict
    /\ Opts(1) # Opts(2)
    /\ Opts(1) # heap[udef]

RetOpts(k) == ret[CHOOSE i \in 1..Len(ret) : ret[i].k = k].v

C5_Input == <<"http://a\n", " x=1\n", "http://b\n">>

\* C5 as stated: for the input `http://a`, indented `x=1`, `http://b`, the
\* option set of http://a lacks x and that of http://b has x = 1.
C5_Original ==
    (bpc = "returned" /\ read = C5_Input) =>
        /\ "x" \notin DOMAIN RetOpts("http://a")
        /\ "x" \in DOMAIN RetOpts("http://b")
        /\ RetOpts("http://b")["x"] = "1"

\* C5 amended: for that input the option line follows the open identifier
\* http://a and is recorded there: http://a has x = 1, http://b has no x.
C5_Amended ==
    (bpc = "returned" /\ read = C5_Input) =>
        /\ Keys(ret) = <<"http://a", "http://b">>
        /\ RetOpts("http://a") = [n \in {"x"} |-> "1"]
        /\ RetOpts("http://b") = EmptyDict

C5_Witness == bpc = "returned" /\ read = C5_Input /\ Len(ret) = 2

\* what C6 says of one step
C6_Step ==
    /\ \A l \in IdentLines :
          (Consumed(l) /\ Ident(l) \in Range(Keys(umap))) =>
              UNCHANGED <<umap, ucur, heap>>
    /\ Keys(umap') = FirstOccurrences(read')

\* C6: an identifier line whose identifier is already a key of the result
\* changes neither the result, nor any option set, nor current_item, and the
\* keys of the result are the distinct identifiers by first occurrence.
C6_DuplicateIgnored == [][C6_Step]_vars

\* a, b, a again, then an option line: the option lands in b, the current item
C6_Witness ==
    /\ Len(read) = 4 /\ Len(umap) = 2
    /\ read[3] \in IdentLines /\ Ident(read[3]) = umap[1].k
    /\ read[4] = " x=1\n"
    /\ ucur = umap[2].r
    /\ "x" \in DOMAIN Opts(2) /\ "x" \notin DOMAIN Opts(1)

\* what C9 says of one step
C9_Step ==
    /\ \A l \in IgnorableLines : Consumed(l) => UNCHANGED <<umap, ucur, heap>>
    /\ (bpc' = "returned" /\ \A i \in 1..Len(read') : read'[i] \in IgnorableLines)
          => ret' = <<>>

\* C9: blank lines, comment lines and option lines without "=", name or value
\* leave result, pending_defaults and current_item unchanged, and a stream of
\* such lines only returns an empty result.
C9_IgnoredLines == [][C9_Step]_vars

\* a malformed option line read while defaults and an open item exist
C9_Witness ==
    /\ Len(read) >= 3
    /\ read[Len(read)] \in {" x\n", " =1\n", " x= \n"}
    /\ ucur # NoneRef
    /\ heap[udef] # EmptyDict

\* a default line after line j of rd sets the name n again
LaterDefault(rd, j, n) ==
    \E j2 \in (j + 1)..Len(rd) : IsDefaultLine(rd, j2) /\ OptName(rd[j2]) = n

\* an option line of the block of identifier k sets the name n
OwnBlockSets(rd, k, n) ==
    \E j2 \in 1..Len(rd) :
        InBlock(rd, k, j2) /\ rd[j2] \in WellFormedLines /\ OptName(rd[j2]) = n

\* C10: a well-formed option line ahead of every identifier line is recorded
\* into pending_defaults, and every identifier of the result maps its name to
\* its value unless a later default line or a line of the identifier's own
\* block set the name again.
C10_DefaultsInherited ==
    \A j \in 1..Len(read) :
        IsDefaultLine(read, j) =>
            LET n == OptName(read[j])
                val == OptValue(read[j])
            IN  /\ n \in DOMAIN heap[udef]
                /\ (heap[udef][n] = val \/ LaterDefault(read, j, n))
                /\ \A i \in 1..Len(umap) :
                      /\ n \in DOMAIN Opts(i)
                      /\ \/ Opts(i)[n] = val
                         \/ LaterDefault(read, j, n)
                         \/ OwnBlockSets(read, umap[i].k, n)

\* a default, a first identifier overriding it, a second one inheriting it
C10_Witness ==
    /\ Len(umap) = 2
    /\ IsDefaultLine(read, 1)
    /\ Opts(2)[OptName(read[1])] = OptValue(read[1])
    /\ Opts(1)[OptName(read[1])] # OptValue(read[1])

-----------------------------------------------------------------------------
(* Claims about the subcommands, checked under SpecCli *)

\* the call ended in a transport failure, an unparseable response, an RPC
\* error or an HTTP error status
Failed(c) == c.out.kind # "return"

\* C7: a subcommand whose RPC call fails exits with a non-zero status, and it
\* exits with status zero only when every call it made returned.
C7_ExitReflectsOutcome ==
    cpc = "exited" =>
        /\ (\E i \in 1..Len(calls) : Failed(calls[i])) => returncode # 0
        /\ returncode = 0 => \A i \in 1..Len(calls) : ~Failed(calls[i])

ExplicitTokens == {"follow-torrent=mem2", "follow-torrent", "follow-torrent="}

ExplicitValue(tok) ==
    IF tok = "follow-torrent=mem2" THEN "mem2"
    ELSE IF tok = "follow-torrent" THEN "true" ELSE ""

\* the index of the last explicit follow-torrent token of ts, 0 without one
LastExplicit(ts) ==
    IF \E i \in 1..Len(ts) : ts[i] \in ExplicitTokens
    THEN CHOOSE i \in 1..Len(ts) :
            /\ ts[i] \in ExplicitTokens
            /\ \A j \in (i + 1)..Len(ts) : ts[j] \notin ExplicitTokens
    ELSE 0

\* C8: the normalized options keep the value of an explicit follow-torrent
\* token (a bare one as "true"); without one they hold follow-torrent -> "mem"
\* when the URI ends in .torrent or .metalink, and no follow-torrent otherwise.
C8_FollowTorrent ==
    (cpc = "exited" /\ argv.cmd = "add") =>
        LET e == LastExplicit(argv.s) IN
        IF e # 0
        THEN /\ "follow-torrent" \in DOMAIN options
             /\ options["follow-torrent"] = ExplicitValue(argv.s[e])
        ELSE IF argv.uri \in {"foo.torrent", "a.metalink"}
        THEN /\ "follow-torrent" \in DOMAIN options
             /\ options["follow-torrent"] = "mem"
        ELSE "follow-torrent" \notin DOMAIN options

====
